---- MODULE Spec2Model ----
(***************************************************************************)
(* Zeno chat server: the completion engine with failover (lib/openai.ts),  *)
(* the blocking chat route (app/api/chat/route.ts), the streaming chat     *)
(* route (app/api/chat/stream/route.ts) and the image route                *)
(* (app/api/image/route.ts) over the conversation store, and the client    *)
(* hook (hooks/useZenoChat.ts).                                            *)
(*                                                                         *)
(* Texts are sequences of tokens; concatenation of texts is \o.  A user    *)
(* message is a sequence of one-character tokens, where LongRun stands for *)
(* a run of MaxMessageLength + 1 non-blank characters.                     *)
(***************************************************************************)
EXTENDS Integers, Sequences, FiniteSets, TLC

VARIABLES store, files, req, uuidCount, turns, concurrency, hook, fn

vars == <<store, files, req, uuidCount, turns, concurrency, hook, fn>>

\* the state of the server
serverVars == <<store, files, req, uuidCount, turns, concurrency>>

----------------------------------------------------------------------------
(* Bounds of the model *)

\* provider chunks (empty ones included) streamed for one request
MaxChunks == 2
\* chat turns one behaviour may start
MaxTurns == 1
\* requests (streams and image requests) one hook instance may start
MaxStreams == 3
\* lines the streams of one hook instance may deliver
MaxReads == 2
\* new chats one hook instance may start
MaxNewChats == 1
\* image requests one hook instance may start
MaxImages == 1
\* conversations one hook instance may load
MaxLoads == 1

\* the request slots; a slot is reused once its request has finished
Req == {1, 2}

\* lengths of the conversation stored under "s1" before the first turn
HistLens == {0, 18, 20}

\* session ids a client may send ("" is: none supplied)
SessionIds == {"", "s1"}

\* raw error texts a provider may raise
ErrTexts == {<<"429 rate limit">>, <<"ECONNRESET">>}

\* the error generateImage may answer with (<<>> is: success)
ImageErrors == {<<>>, <<"URI malformed">>}

----------------------------------------------------------------------------
(* Program constants *)

ContextWindow == 20
MaxMessageLength == 10000
FileBudget == 8000

LongRun == "x..."

Apology == <<"I apologize, I couldn't generate a response. Please try again.">>

UnavailableError == <<"All AI services are currently unavailable. Please try again later.">>

ZENO_SYSTEM_PROMPT == <<"You are ZENO">>

DbError == <<"db unavailable">>

\* the TypeError of controller.enqueue / close once the transport is cancelled
EnqueueError == <<"Invalid state: Controller is already closed">>

\* message bodies a client may send
Messages == {<<>>, <<" ">>, <<" ", "h", "i", " ">>, <<LongRun>>}

\* what the i-th chunk (or the one response) of a provider may carry:
\* a text, or no content
GroqDeltas(i) == {<<"g" \o ToString(i)>>, <<>>}
CohereDeltas(i) == {<<"c" \o ToString(i)>>, <<>>}

----------------------------------------------------------------------------
(* Text helpers *)

Min(a, b) == IF a < b THEN a ELSE b
Max(a, b) == IF a > b THEN a ELSE b

\* String.prototype.trim on a text of one-character tokens
RECURSIVE TrimStart(_)
TrimStart(s) == IF s # <<>> /\ Head(s) = " " THEN TrimStart(Tail(s)) ELSE s

RECURSIVE TrimEnd(_)
TrimEnd(s) ==
    IF s # <<>> /\ s[Len(s)] = " " THEN TrimEnd(SubSeq(s, 1, Len(s) - 1)) ELSE s

Trim(s) == TrimEnd(TrimStart(s))

\* String.prototype.length
TokLen(t) == IF t = LongRun THEN MaxMessageLength + 1 ELSE 1

RECURSIVE CharLen(_)
CharLen(s) == IF s = <<>> THEN 0 ELSE TokLen(Head(s)) + CharLen(Tail(s))

\* faulty variant: slice(0, -start), the first messages instead of the last
SliceFromStart(s, start) == SubSeq(s, 1, Min(Len(s), -start))

\* Array.prototype.slice(start) with a negative start
Slice(s, start) ==
    LET from == IF start < 0 THEN Max(Len(s) + start, 0) ELSE Min(start, Len(s))
    IN  SubSeq(s, from + 1, Len(s))

\* a || b on strings
OrElse(a, b) == IF a # <<>> THEN a ELSE b

\* cause occurs in msg
References(msg, cause) ==
    \E i \in 1..(Len(msg) - Len(cause) + 1) :
        SubSeq(msg, i, i + Len(cause) - 1) = cause

----------------------------------------------------------------------------
(* Data *)

Msg(role, content) == [role |-> role, content |-> content]

ContentEvent(chunk) == [type |-> "content", content |-> chunk]
DoneEvent(sid) == [type |-> "done", sessionId |-> sid]
ErrorEvent(msg) == [type |-> "error", error |-> msg]

\* a conversation the program has stored in h/2 earlier turns
History(h) ==
    [i \in 1..h |->
        Msg(IF i % 2 = 1 THEN "user" ELSE "assistant", <<ToString(i)>>)]

NoStore == [s \in {} |-> <<>>]

ReadyFile ==
    [sessionId |-> "s1", status |-> "ready", originalName |-> "a.txt",
     mimeType |-> "text/plain", extractedText |-> <<"d", "o", "c">>]

FailedFile ==
    [sessionId |-> "s1", status |-> "error", originalName |-> "b.pdf",
     mimeType |-> "application/pdf", extractedText |-> <<>>]

IdleReq ==
    [pc |-> "idle", kind |-> "none", message |-> <<>>, sessionId |-> "",
     currentSessionId |-> "", loadedLen |-> 0, conv |-> <<>>,
     contextMessages |-> <<>>, groqWire |-> <<>>, cohereArg |-> <<>>,
     cohereWire |-> <<>>, groqCalls |-> 0, cohereCalls |-> 0,
     groqResult |-> "none", cohereResult |-> "none",
     groqOut |-> <<>>, cohereOut |-> <<>>, groqErr |-> <<>>, cohereErr |-> <<>>,
     chunksAtGroqFail |-> 0, fullResponse |-> <<>>, cb |-> <<>>,
     events |-> <<>>, closed |-> 0, status |-> 0, body |-> <<>>,
     thrown |-> <<>>, log |-> <<>>, pushes |-> 0, saveCalls |-> 0, saved |-> FALSE,
     storeBefore |-> NoStore,
     aborted |-> FALSE, atAbort |-> [events |-> 0, calls |-> 0, saveCalls |-> 0]]

\* console.error / console.warn of the server
Log(q, line) == [q EXCEPT !.log = Append(@, line)]

----------------------------------------------------------------------------
(* lib/fileParser.ts *)

\* faulty variant: the halves are rounded up, ceil(maxChars / 2) each
truncateForContextRoundedUp(text, maxChars) ==
    IF Len(text) <= maxChars THEN text
    ELSE LET halfMax == (maxChars + 1) \div 2
             beginning == SubSeq(text, 1, halfMax)
             ending == SubSeq(text, Len(text) - halfMax + 1, Len(text))
         IN  beginning
             \o <<"\n\n[... content truncated for length (", ToString(Len(text)),
                  " chars total) ...]\n\n">>
             \o ending

truncateForContext(text, maxChars) ==
    IF Len(text) <= maxChars THEN text
    ELSE LET halfMax == maxChars \div 2
             beginning == SubSeq(text, 1, halfMax)
             ending == SubSeq(text, Len(text) - halfMax + 1, Len(text))
         IN  beginning
             \o <<"\n\n[... content truncated for length (", ToString(Len(text)),
                  " chars total) ...]\n\n">>
             \o ending

----------------------------------------------------------------------------
(* Context assembly of the two chat routes *)

\* UploadedFile.find({sessionId, status: "ready"})
FindReadyFiles(fl, sid) ==
    SelectSeq(fl, LAMBDA f : f.sessionId = sid /\ f.status = "ready")

FileBlock(f) ==
    <<"--- FILE: ", f.originalName, f.mimeType>>
    \o truncateForContext(f.extractedText, FileBudget)
    \o <<"--- END FILE ---">>

RECURSIVE JoinFiles(_)
JoinFiles(fs) ==
    IF fs = <<>> THEN <<>>
    ELSE IF Len(fs) = 1 THEN FileBlock(fs[1])
    ELSE FileBlock(fs[1]) \o <<"\n\n">> \o JoinFiles(Tail(fs))

\* faulty variant: the prefix announces the documents without their contents
FileContextPrefixWithoutFiles(uploadedFiles) ==
    IF Len(uploadedFiles) > 0
    THEN <<"The user has uploaded the following document(s).">> \o <<"\n\n">>
    ELSE <<>>

FileContextPrefix(uploadedFiles) ==
    IF Len(uploadedFiles) > 0
    THEN <<"The user has uploaded the following document(s).">>
         \o JoinFiles(uploadedFiles) \o <<"\n\n">>
    ELSE <<>>

\* faulty variant: the prefix is prepended whatever the role of the first message
ChatContextMessagesAnyRole(messages, fileContextPrefix) ==
    LET w == Slice(messages, -ContextWindow)
    IN  [i \in 1..Len(w) |->
            IF i = 1 /\ fileContextPrefix # <<>>
            THEN Msg(w[i].role, fileContextPrefix \o w[i].content)
            ELSE Msg(w[i].role, w[i].content)]

\* blocking route: last ContextWindow messages, prefix on a leading user message
ChatContextMessages(messages, fileContextPrefix) ==
    LET w == Slice(messages, -ContextWindow)
    IN  [i \in 1..Len(w) |->
            IF i = 1 /\ fileContextPrefix # <<>> /\ w[i].role = "user"
            THEN Msg(w[i].role, fileContextPrefix \o w[i].content)
            ELSE Msg(w[i].role, w[i].content)]

\* faulty variant: the map writes the prefixed content into the document
MessagesAfterMapInPlace(messages, fileContextPrefix) ==
    LET first == Max(Len(messages) - ContextWindow, 0) + 1
    IN  [i \in 1..Len(messages) |->
            IF i = first /\ fileContextPrefix # <<>> /\ messages[i].role = "user"
            THEN Msg(messages[i].role, fileContextPrefix \o messages[i].content)
            ELSE messages[i]]

\* conversation.messages once slice(-20).map(...) has built contextMessages:
\* the map returns new objects, the documents keep their content
MessagesAfterMap(messages, fileContextPrefix) == messages

\* streaming route: last ContextWindow messages
StreamContextMessages(messages) ==
    LET w == Slice(messages, -ContextWindow)
    IN  [i \in 1..Len(w) |-> Msg(w[i].role, w[i].content)]

\* Conversation.findOne(...) or new Conversation({messages: []}), in memory
FindOrNew(st, sid) == IF sid \in DOMAIN st THEN st[sid] ELSE <<>>

\* faulty variant: the lookup upserts an empty conversation
StoreAfterLoadUpsert(st, sid) ==
    [s \in DOMAIN st \cup {sid} |-> IF s \in DOMAIN st THEN st[s] ELSE <<>>]

\* the store after the conversation has been looked up: nothing is written
StoreAfterLoad(st, sid) == st

\* faulty variant: the save appends the two pushed messages to what is stored
StoreAfterSaveMerging(st, sid, messages) ==
    [s \in DOMAIN st \cup {sid} |->
        IF s = sid
        THEN FindOrNew(st, sid) \o SubSeq(messages, Len(messages) - 1, Len(messages))
        ELSE st[s]]

\* conversation.save(): the document of the request replaces the stored one
StoreAfterSave(st, sid, messages) ==
    [s \in DOMAIN st \cup {sid} |-> IF s = sid THEN messages ELSE st[s]]

\* the schema's required content rejects an empty string
SaveValid(messages) == \A i \in 1..Len(messages) : messages[i].content # <<>>

\* the 400 of the routes: its text, or <<>> when the body is accepted
ValidationError(kind, message) ==
    IF message = <<>> \/ Trim(message) = <<>>
    THEN IF kind = "chat"
         THEN <<"Message is required and must be a non-empty string">>
         ELSE <<"Message is required">>
    ELSE IF kind = "chat" /\ CharLen(message) > MaxMessageLength
    THEN <<"Message is too long. Maximum 10,000 characters allowed.">>
    ELSE <<>>

----------------------------------------------------------------------------
(* Callbacks of the streaming route (the closures handed to the engine) *)

\* controller.enqueue / close throw once the client has aborted the transport
EnqueueThrows(q) == q.aborted

\* catch (error) inside start(): its own enqueue throws as well, start rejects
StartRejected(q, message) ==
    [Log(q, <<"Stream error:">> \o message) EXCEPT !.pc = "done"]

\* (chunk) => { fullResponse += chunk; controller.enqueue(content event) };
\* the callers see to the throw of enqueue
OnChunk(q, chunk) ==
    [q EXCEPT !.fullResponse = @ \o chunk,
              !.events = IF EnqueueThrows(q) THEN @
                         ELSE Append(@, ContentEvent(chunk))]

\* faulty variant: the done event is written before the save is awaited
OnDoneBeforeSave(q) ==
    [q EXCEPT !.conv = Append(@, Msg("assistant", q.fullResponse)),
              !.pushes = @ + 1,
              !.saveCalls = @ + 1,
              !.events = Append(@, DoneEvent(q.currentSessionId)),
              !.pc = "saving"]

\* async () => { push assistant; await save() ...: up to the await
OnDone(q) ==
    [q EXCEPT !.conv = Append(@, Msg("assistant", q.fullResponse)),
              !.pushes = @ + 1,
              !.saveCalls = @ + 1,
              !.pc = "saving"]

\* ... after the await: enqueue the done event, close the controller
OnDoneSaved(q) ==
    IF EnqueueThrows(q)
    THEN [q EXCEPT !.saved = TRUE, !.pc = "done"]
    ELSE [q EXCEPT !.saved = TRUE,
                   !.events = Append(@, DoneEvent(q.currentSessionId)),
                   !.closed = @ + 1,
                   !.pc = "done"]

\* the save rejected: the promise of onDone rejects, nobody awaits it
OnDoneRejected(q) == [q EXCEPT !.pc = "done"]

\* (error) => { controller.enqueue(error event); controller.close() }
OnError(q, message) ==
    IF EnqueueThrows(q)
    THEN StartRejected(q, EnqueueError)
    ELSE [q EXCEPT !.events = Append(@, ErrorEvent(message)),
                   !.closed = @ + 1,
                   !.pc = "done"]

\* the client aborts the transport of the request
AbortEff(q) ==
    [q EXCEPT !.aborted = TRUE,
              !.atAbort = [events |-> Len(q.events),
                           calls |-> q.groqCalls + q.cohereCalls,
                           saveCalls |-> q.saveCalls]]

----------------------------------------------------------------------------
(* lib/openai.ts: the completion engine *)

Called(q, name, arg) == [q EXCEPT !.cb = Append(@, [cb |-> name, arg |-> arg])]

\* the role mapping of the Cohere adapters
CohereRole(role) == IF role = "assistant" THEN "assistant" ELSE "user"

CohereMessages(messages) ==
    [i \in 1..Len(messages) |-> Msg(CohereRole(messages[i].role), messages[i].content)]

\* faulty variant: the fallback is handed the newest message only
FallbackLastMessageOnly(messages) == SubSeq(messages, Len(messages), Len(messages))

\* what the fallback is handed: the messages of the caller
FallbackMessages(messages) == messages

\* the request a provider is sent
GroqRequest(messages) == <<Msg("system", ZENO_SYSTEM_PROMPT)>> \o messages

\* faulty variant: the fallback is sent the messages without the system prompt
CohereRequestWithoutSystem(messages) == CohereMessages(messages)

CohereRequest(messages) ==
    <<Msg("system", ZENO_SYSTEM_PROMPT)>> \o CohereMessages(messages)

\* groq.chat.completions.create(...) is called
CallGroq(q) ==
    [q EXCEPT !.groqCalls = @ + 1,
              !.groqWire = GroqRequest(q.contextMessages),
              !.pc = "groq"]

\* cohere.chat(...) / cohere.chatStream(...) is called
CallCohere(q) ==
    LET messages == FallbackMessages(q.contextMessages)
    IN  [q EXCEPT !.cohereCalls = @ + 1,
                  !.cohereArg = messages,
                  !.cohereWire = CohereRequest(messages),
                  !.pc = "cohere"]

\* catch (groqError): log it, fall back
GroqFailed(q, e) ==
    CallCohere(Log([q EXCEPT !.groqResult = "fail", !.groqErr = e,
                             !.chunksAtGroqFail = Len(q.cb)],
                   <<"Groq failed:">> \o e))

\* errorMsg of the both-failed branches
BothFailedMsg(gErr, cErr) ==
    <<"Both AI providers failed.", "Groq error: ">> \o gErr
    \o <<"Cohere error: ">> \o cErr

\* faulty variant: the Error raised carries errorMsg
BothFailedThrownCombined(gErr, cErr) == BothFailedMsg(gErr, cErr)

\* the message of the Error the both-failed branches raise
BothFailedThrown(gErr, cErr) == UnavailableError

\* faulty variant: after the fallback failed PRIMARY is tried once more
CohereFailedRetriesGroq(q, e) ==
    CallGroq(Log(Log([q EXCEPT !.cohereResult = "fail", !.cohereErr = e],
                     <<"Cohere also failed:">> \o e),
                 <<"CRITICAL:">> \o BothFailedMsg(q.groqErr, e)))

\* catch (cohereError): log both causes; the result is the Error raised
CohereFailed(q, e) ==
    Log(Log([q EXCEPT !.cohereResult = "fail", !.cohereErr = e],
            <<"Cohere also failed:">> \o e),
        <<"CRITICAL:">> \o BothFailedMsg(q.groqErr, e))

\* response.choices[0]?.message?.content || apology
GroqText(content) == OrElse(content, Apology)

\* textItem.text || apology
CohereText(content) == OrElse(content, Apology)

(* streamChatCompletion *)

\* a throw of onChunk inside the loop lands in catch (groqError)
StreamGroqChunkEff(q, d) ==
    LET q1 == [q EXCEPT !.groqOut = Append(@, d)]
        q2 == OnChunk(Called(q1, "onChunk", d), d)
    IN  IF d = <<>> THEN q1
        ELSE IF EnqueueThrows(q) THEN GroqFailed(q2, EnqueueError)
        ELSE q2

StreamGroqEndEff(q) ==
    OnDone(Called([q EXCEPT !.groqResult = "ok"], "onDone", <<>>))

StreamGroqFailEff(q, e) == GroqFailed(q, e)

\* faulty variant: onError is handed the error of the fallback itself
StreamCohereFailRaw(q, e) ==
    OnError(Called(CohereFailed(q, e), "onError", e), e)

StreamCohereFailEff(q, e) ==
    LET thrown == BothFailedThrown(q.groqErr, e)
    IN  OnError(Called(CohereFailed(q, e), "onError", thrown), thrown)

\* faulty variant: the first event of the fallback stream is not forwarded
StreamCohereChunkDropsFirst(q, d) ==
    LET q1 == [q EXCEPT !.cohereOut = Append(@, d)]
        q2 == OnChunk(Called(q1, "onChunk", d), d)
    IN  IF d = <<>> \/ q.cohereOut = <<>> THEN q1
        ELSE IF EnqueueThrows(q) THEN StreamCohereFailEff(q2, EnqueueError)
        ELSE q2

\* a throw of onChunk inside the loop lands in catch (cohereError)
StreamCohereChunkEff(q, d) ==
    LET q1 == [q EXCEPT !.cohereOut = Append(@, d)]
        q2 == OnChunk(Called(q1, "onChunk", d), d)
    IN  IF d = <<>> THEN q1
        ELSE IF EnqueueThrows(q) THEN StreamCohereFailEff(q2, EnqueueError)
        ELSE q2

StreamCohereEndEff(q) ==
    OnDone(Called([q EXCEPT !.cohereResult = "ok"], "onDone", <<>>))

(* getChatCompletion and the rest of the blocking route *)

\* push the assistant message, call save()
\* faulty variant: the answer is saved in place of the user message
ChatPushAndSaveReplacing(q, aiResponse) ==
    [q EXCEPT !.fullResponse = aiResponse,
              !.conv = [@ EXCEPT ![Len(@)] = Msg("assistant", aiResponse)],
              !.pushes = @ + 1,
              !.saveCalls = @ + 1,
              !.pc = "saving"]

ChatPushAndSave(q, aiResponse) ==
    [q EXCEPT !.fullResponse = aiResponse,
              !.conv = Append(@, Msg("assistant", aiResponse)),
              !.pushes = @ + 1,
              !.saveCalls = @ + 1,
              !.pc = "saving"]

\* catch (error) of the blocking route
ChatCatch(q, message) ==
    [Log(q, <<"Chat API Error:">> \o message)
        EXCEPT !.status = 500,
               !.body = OrElse(message, <<"Failed to process message">>),
               !.pc = "done"]

ChatGroqOkEff(q, content) ==
    ChatPushAndSave([q EXCEPT !.groqResult = "ok", !.groqOut = <<content>>],
                    GroqText(content))

ChatGroqFailEff(q, e) == GroqFailed(q, e)

ChatCohereOkEff(q, content) ==
    ChatPushAndSave([q EXCEPT !.cohereResult = "ok", !.cohereOut = <<content>>],
                    CohereText(content))

ChatCohereFailEff(q, e) ==
    LET thrown == BothFailedThrown(q.groqErr, e)
    IN  ChatCatch([CohereFailed(q, e) EXCEPT !.thrown = thrown], thrown)

ChatSaveOkEff(q) ==
    [q EXCEPT !.saved = TRUE, !.status = 200, !.body = q.fullResponse,
              !.pc = "done"]

ChatSaveFailEff(q) == ChatCatch(q, DbError)

----------------------------------------------------------------------------
(* lib/imageGen: the image request router *)

\* String.prototype.substring(from - 1, to) on the characters of a string
Sub(str, from, to) == SubSeq(str, from, Min(to, Len(str)))

\* the characters of a string, as a text of one-character tokens
Chars(str) == [i \in 1..Len(str) |-> Sub(str, i, i)]

\* the string a text of tokens stands for
RECURSIVE Str(_)
Str(s) == IF s = <<>> THEN "" ELSE Head(s) \o Str(Tail(s))

UpperCase == "ABCDEFGHIJKLMNOPQRSTUVWXYZ"
LowerCase == "abcdefghijklmnopqrstuvwxyz"

\* \w of a regular expression
WordChars == {Sub(w, i, i) : w \in {UpperCase, LowerCase, "0123456789_"},
                                i \in 1..Len(UpperCase)} \ {""}

\* \s of a regular expression
SpaceChars == {" ", "\t", "\n"}

\* the flag i: the subject is compared in lower case
LowerChar(c) ==
    IF \E i \in 1..Len(UpperCase) : Sub(UpperCase, i, i) = c
    THEN LET i == CHOOSE i \in 1..Len(UpperCase) : Sub(UpperCase, i, i) = c
         IN  Sub(LowerCase, i, i)
    ELSE c

RECURSIVE toLowerCase(_)
toLowerCase(str) ==
    IF str = "" THEN ""
    ELSE LowerChar(Sub(str, 1, 1)) \o toLowerCase(Sub(str, 2, Len(str)))

\* String.prototype.trim
RECURSIVE trimStart(_)
trimStart(str) ==
    IF str # "" /\ Sub(str, 1, 1) \in SpaceChars
    THEN trimStart(Sub(str, 2, Len(str))) ELSE str

RECURSIVE trimEnd(_)
trimEnd(str) ==
    IF str # "" /\ Sub(str, Len(str), Len(str)) \in SpaceChars
    THEN trimEnd(Sub(str, 1, Len(str) - 1)) ELSE str

trim(str) == trimEnd(trimStart(str))

\* String.prototype.substring(start)
substring(str, start) == Sub(str, start + 1, Len(str))

\* The elements of the regular expressions of the router.  A pattern is a
\* sequence of elements, anchored at the start of the subject.
Alt(ws) == [k |-> "alt", ws |-> ws, e |-> <<>>]     \* (w1|w2|...)
Opt(e) == [k |-> "opt", ws |-> <<>>, e |-> e]       \* (...)?
Sp1 == [k |-> "sp1", ws |-> <<>>, e |-> <<>>]       \* \s+
Sp0 == [k |-> "sp0", ws |-> <<>>, e |-> <<>>]       \* \s*
Bnd == [k |-> "bnd", ws |-> <<>>, e |-> <<>>]       \* \b

\* an?\s+
Article == <<Alt(<<"a">>), Opt(<<Alt(<<"n">>)>>), Sp1>>

Prepositions == <<"of", "for", "about", "showing", "depicting", "with">>

\* the number of white-space characters of str from offset p on
RECURSIVE SpacesAt(_, _)
SpacesAt(str, p) ==
    IF p < Len(str) /\ Sub(str, p + 1, p + 1) \in SpaceChars
    THEN 1 + SpacesAt(str, p + 1) ELSE 0

IsWordAt(str, i) == i >= 1 /\ i <= Len(str) /\ Sub(str, i, i) \in WordChars

\* the offsets at which the alternatives ws end when matched at offset p, in
\* the order of the alternatives
RECURSIVE AltEnds(_, _, _)
AltEnds(ws, str, p) ==
    IF ws = <<>> THEN <<>>
    ELSE (IF Sub(str, p + 1, p + Len(Head(ws))) = Head(ws)
          THEN <<p + Len(Head(ws))>> ELSE <<>>)
         \o AltEnds(Tail(ws), str, p)

\* The backtracking matcher: the offsets at which a match of the pattern
\* that starts at offset p may end, in the order in which the matcher tries
\* them (quantifiers are greedy, alternatives are tried left to right).
RECURSIVE Ends(_, _, _), MatchSeq(_, _, _), MatchFrom(_, _, _)
Ends(el, str, p) ==
    CASE el.k = "alt" -> AltEnds(el.ws, str, p)
      [] el.k = "opt" -> MatchSeq(el.e, str, p) \o <<p>>
      [] el.k = "sp1" ->
            LET n == SpacesAt(str, p) IN [i \in 1..n |-> p + n - i + 1]
      [] el.k = "sp0" ->
            LET n == SpacesAt(str, p) IN [i \in 1..(n + 1) |-> p + n - i + 1]
      [] el.k = "bnd" ->
            IF IsWordAt(str, p) # IsWordAt(str, p + 1) THEN <<p>> ELSE <<>>

MatchSeq(pattern, str, p) ==
    IF pattern = <<>> THEN <<p>>
    ELSE MatchFrom(Tail(pattern), str, Ends(Head(pattern), str, p))

MatchFrom(pattern, str, ps) ==
    IF ps = <<>> THEN <<>>
    ELSE MatchSeq(pattern, str, Head(ps)) \o MatchFrom(pattern, str, Tail(ps))

\* RegExp.prototype.test of an anchored pattern with the flag i
test(pattern, str) == MatchSeq(pattern, toLowerCase(str), 0) # <<>>

\* match[0].length of String.prototype.match; -1 is: no match
matchLength(pattern, str) ==
    LET ends == MatchSeq(pattern, toLowerCase(str), 0)
    IN  IF ends = <<>> THEN -1 ELSE Head(ends)

IMAGE_TRIGGER_PATTERNS ==
    << <<Alt(<<"generate">>), Sp1, Opt(Article), Alt(<<"image">>), Sp1,
         Alt(Prepositions), Bnd>>,
       <<Alt(<<"create">>), Sp1, Opt(Article), Alt(<<"image">>), Sp1,
         Alt(Prepositions), Bnd>>,
       <<Alt(<<"make">>), Sp1, Opt(Article),
         Alt(<<"image", "picture", "photo", "art", "artwork", "illustration">>),
         Sp1, Alt(Prepositions), Bnd>>,
       <<Alt(<<"draw">>), Sp1, Opt(Article),
         Opt(<<Alt(<<"image", "picture", "art", "artwork", "illustration">>)>>),
         Sp0, Opt(<<Alt(Prepositions)>>), Bnd>>,
       <<Alt(<<"paint", "sketch", "design", "illustrate">>), Bnd>>,
       <<Alt(<<"generate">>), Sp1, Opt(Article),
         Alt(<<"picture", "photo", "art", "artwork", "illustration">>),
         Sp1, Alt(Prepositions), Bnd>>,
       <<Alt(<<"create">>), Sp1, Opt(Article),
         Alt(<<"picture", "photo", "art", "artwork", "illustration">>),
         Sp1, Alt(Prepositions), Bnd>>,
       <<Alt(<<"show", "give">>), Sp1, Alt(<<"me">>), Sp1, Opt(Article),
         Alt(<<"image", "picture", "photo", "art">>),
         Sp1, Alt(Prepositions), Bnd>>,
       <<Alt(<<"imagine">>), Bnd>>,
       <<Alt(<<"visualize">>), Bnd>> >>

isImageGenerationRequest(message) ==
    LET trimmed == trim(message)
    IN  \E i \in 1..Len(IMAGE_TRIGGER_PATTERNS) :
            test(IMAGE_TRIGGER_PATTERNS[i], trimmed)

prefixPatterns ==
    << <<Alt(<<"generate", "create", "make", "draw", "paint", "sketch", "design",
               "illustrate", "imagine", "visualize">>), Sp1, Opt(Article),
         Opt(<<Alt(<<"image", "picture", "photo", "art", "artwork",
                     "illustration">>)>>),
         Sp0, Opt(<<Alt(Prepositions)>>), Sp0>>,
       <<Alt(<<"show", "give">>), Sp1, Alt(<<"me">>), Sp1, Opt(Article),
         Alt(<<"image", "picture", "photo", "art", "artwork", "illustration">>),
         Sp0, Opt(<<Alt(Prepositions)>>), Sp0>> >>

\* the for loop of extractImagePrompt from the pattern i on
RECURSIVE StripPrefix(_, _)
StripPrefix(prompt, i) ==
    IF i > Len(prefixPatterns) THEN prompt
    ELSE LET n == matchLength(prefixPatterns[i], prompt)
         IN  IF n >= 0 THEN trim(substring(prompt, n))
             ELSE StripPrefix(prompt, i + 1)

extractImagePrompt(message) ==
    LET prompt == StripPrefix(trim(message), 1)
    IN  IF prompt = "" \/ Len(prompt) < 3 THEN trim(message) ELSE prompt


\* message bodies a client may send to the image route
ImageMessages == {<<>>, <<" ">>, Chars(" generate an image of a red bicycle ")}

\* contents the user may send through the hook: a chat message and an image
\* request
HookContents == {Chars(" hi "), Chars(" draw a cat ")}

\* const prompt = extractImagePrompt(userMessage) of generateImage, for the
\* messages the image route may receive
ImagePromptOf ==
    [m \in Messages \cup ImageMessages \cup {Trim(c) : c \in HookContents} |->
        extractImagePrompt(Str(m))]

----------------------------------------------------------------------------
(* Session ids of the routes *)

\* uuidv4()
Uuid(n) == "u" \o ToString(n + 1)

\* sessionId || uuidv4()
CurrentSessionId(sessionId, n) == IF sessionId # "" THEN sessionId ELSE Uuid(n)

----------------------------------------------------------------------------
(* app/api/image/route.ts *)

\* the result of generateImage for the prompt extracted from the message
ImageResult(prompt, e) ==
    [success |-> e = <<>>, prompt |-> prompt,
     imageUrl |-> <<"https://image.pollinations.ai/prompt/">> \o prompt,
     model |-> "flux", size |-> "1024x1024", error |-> e]

\* faulty variant: the answer names the prompt but not the image
assistantContentWithoutUrl(result) ==
    <<"Here's the generated image for: ">> \o result.prompt
    \o <<"Model: ", result.model, "Size: ", result.size, "Tip">>

assistantContent(result) ==
    <<"Here's the generated image for: ">> \o result.prompt
    \o <<"![Generated Image](">> \o result.imageUrl
    \o <<")", "Model: ", result.model, "Size: ", result.size, "Tip">>

\* errorResponse of the image route
ImageErrorResponse(q, message, status) ==
    [Log(q, <<"[Image API Error]">> \o message)
        EXCEPT !.status = status, !.body = message, !.pc = "done"]

\* catch (err) of the image route
ImageCatch(q, message) ==
    ImageErrorResponse(Log(q, <<"[Image API] Unhandled error:">> \o message),
                       <<"An unexpected error occurred">>, 500)

\* POST of the image route up to the await of save()
ImagePostEff(a, st, n) ==
    LET q0 == [IdleReq EXCEPT !.kind = "image", !.message = a.message,
                              !.sessionId = a.sessionId, !.storeBefore = st]
        result == ImageResult(<<ImagePromptOf[a.message]>>, a.e)
        sid == CurrentSessionId(a.sessionId, n)
        loaded == FindOrNew(st, sid)
        content == assistantContent(result)
    IN  IF a.message = <<>> \/ Trim(a.message) = <<>>
        THEN ImageErrorResponse(q0, <<"Message is required">>, 400)
        ELSE IF ~result.success
        THEN ImageErrorResponse(q0, OrElse(result.error, <<"Image generation failed">>),
                                500)
        ELSE IF ~a.dbOk THEN ImageCatch(q0, DbError)
        ELSE [q0 EXCEPT !.currentSessionId = sid,
                        !.loadedLen = Len(loaded),
                        !.conv = loaded \o <<Msg("user", Trim(a.message)),
                                             Msg("assistant", content)>>,
                        !.fullResponse = content,
                        !.pushes = 2,
                        !.saveCalls = 1,
                        !.pc = "saving"]

ImageSaveOkEff(q) ==
    [q EXCEPT !.saved = TRUE, !.status = 200, !.body = q.fullResponse,
              !.pc = "done"]

ImageSaveFailEff(q) == ImageCatch(q, DbError)

----------------------------------------------------------------------------
(* The POST handlers up to the provider call *)

PostRejected(kind, a, st, status, message) ==
    [IdleReq EXCEPT !.kind = kind, !.message = a.message,
                    !.sessionId = a.sessionId, !.storeBefore = st,
                    !.status = status, !.body = message, !.pc = "done"]

\* catch (error) of the POST handlers, before any stream exists
PostCatch(kind, a, st, message) ==
    Log(PostRejected(kind, a, st, 500,
                     OrElse(message,
                            IF kind = "chat" THEN <<"Failed to process message">>
                            ELSE <<"Failed to process stream">>)),
        (IF kind = "chat" THEN <<"Chat API Error:">> ELSE <<"Stream API Error:">>)
        \o message)

PostEff(kind, a, st, fl, n) ==
    LET verr == ValidationError(kind, a.message)
        sid == CurrentSessionId(a.sessionId, n)
        loaded == FindOrNew(st, sid)
        pushed == Append(loaded, Msg("user", Trim(a.message)))
        fileContextPrefix == FileContextPrefix(FindReadyFiles(fl, sid))
        ctx == IF kind = "chat"
               THEN ChatContextMessages(pushed, fileContextPrefix)
               ELSE StreamContextMessages(pushed)
        conv == IF kind = "chat"
                THEN MessagesAfterMap(pushed, fileContextPrefix)
                ELSE pushed
    IN  IF kind = "image" THEN ImagePostEff(a, st, n)
        ELSE IF verr # <<>> THEN PostRejected(kind, a, st, 400, verr)
        ELSE IF ~a.dbOk THEN PostCatch(kind, a, st, DbError)
        ELSE CallGroq([IdleReq EXCEPT !.kind = kind, !.message = a.message,
                           !.sessionId = a.sessionId, !.storeBefore = st,
                           !.currentSessionId = sid,
                           !.loadedLen = Len(loaded),
                           !.conv = conv,
                           !.contextMessages = ctx,
                           !.status = IF kind = "stream" THEN 200 ELSE 0])

PostAccepted(kind, a) ==
    /\ ValidationError(kind, a.message) = <<>> /\ a.dbOk
    /\ kind = "image" => a.e = <<>>

----------------------------------------------------------------------------
(* Steps: one per handler segment between two awaits *)

In(act, message, sessionId, dbOk, d, e) ==
    [act |-> act, message |-> message, sessionId |-> sessionId, dbOk |-> dbOk,
     d |-> d, e |-> e]

IsPost(a) == a.act \in {"ChatPost", "StreamPost", "ImagePost"}
KindOf(a) ==
    CASE a.act = "ChatPost" -> "chat"
      [] a.act = "StreamPost" -> "stream"
      [] OTHER -> "image"

At(q, kind, pc) == q.kind = kind /\ q.pc = pc

GuardOf(q, a) ==
    CASE IsPost(a) -> q.pc \in {"idle", "done"}
      [] a.act \in {"ChatGroqOk", "ChatGroqFail"} -> At(q, "chat", "groq")
      [] a.act \in {"ChatCohereOk", "ChatCohereFail"} -> At(q, "chat", "cohere")
      [] a.act = "ChatSaveOk" -> At(q, "chat", "saving") /\ SaveValid(q.conv)
      [] a.act = "ChatSaveFail" -> At(q, "chat", "saving")
      [] a.act = "StreamGroqChunk" ->
            At(q, "stream", "groq") /\ Len(q.groqOut) + Len(q.cohereOut) < MaxChunks
      [] a.act \in {"StreamGroqEnd", "StreamGroqFail"} -> At(q, "stream", "groq")
      [] a.act = "StreamCohereChunk" ->
            At(q, "stream", "cohere")
            /\ Len(q.groqOut) + Len(q.cohereOut) < MaxChunks
      [] a.act \in {"StreamCohereEnd", "StreamCohereFail"} ->
            At(q, "stream", "cohere")
      [] a.act = "StreamSaveOk" -> At(q, "stream", "saving") /\ SaveValid(q.conv)
      [] a.act = "StreamSaveFail" -> At(q, "stream", "saving")
      [] a.act = "ImageSaveOk" -> At(q, "image", "saving") /\ SaveValid(q.conv)
      [] a.act = "ImageSaveFail" -> At(q, "image", "saving")
      [] a.act = "Abort" ->
            q.kind = "stream" /\ q.pc \in {"groq", "cohere", "saving"} /\ ~q.aborted

EffOf(q, st, fl, n, a) ==
    CASE IsPost(a) -> PostEff(KindOf(a), a, st, fl, n)
      [] a.act = "ChatGroqOk" -> ChatGroqOkEff(q, a.d)
      [] a.act = "ChatGroqFail" -> ChatGroqFailEff(q, a.e)
      [] a.act = "ChatCohereOk" -> ChatCohereOkEff(q, a.d)
      [] a.act = "ChatCohereFail" -> ChatCohereFailEff(q, a.e)
      [] a.act = "ChatSaveOk" -> ChatSaveOkEff(q)
      [] a.act = "ChatSaveFail" -> ChatSaveFailEff(q)
      [] a.act = "StreamGroqChunk" -> StreamGroqChunkEff(q, a.d)
      [] a.act = "StreamGroqEnd" -> StreamGroqEndEff(q)
      [] a.act = "StreamGroqFail" -> StreamGroqFailEff(q, a.e)
      [] a.act = "StreamCohereChunk" -> StreamCohereChunkEff(q, a.d)
      [] a.act = "StreamCohereEnd" -> StreamCohereEndEff(q)
      [] a.act = "StreamCohereFail" -> StreamCohereFailEff(q, a.e)
      [] a.act = "StreamSaveOk" -> OnDoneSaved(q)
      [] a.act = "StreamSaveFail" -> OnDoneRejected(q)
      [] a.act = "ImageSaveOk" -> ImageSaveOkEff(q)
      [] a.act = "ImageSaveFail" -> ImageSaveFailEff(q)
      [] a.act = "Abort" -> AbortEff(q)

StoreOf(q, st, n, a) ==
    CASE IsPost(a) /\ PostAccepted(KindOf(a), a) ->
            StoreAfterLoad(st, CurrentSessionId(a.sessionId, n))
      [] a.act \in {"ChatSaveOk", "StreamSaveOk", "ImageSaveOk"} ->
            StoreAfterSave(st, q.currentSessionId, q.conv)
      [] OTHER -> st

UuidsOf(n, a) ==
    IF IsPost(a) /\ PostAccepted(KindOf(a), a) /\ a.sessionId = ""
    THEN n + 1 ELSE n

InFlight == {r \in Req : req[r].pc \notin {"idle", "done"}}

\* a new request is taken when the client may send one, by the first free
\* slot; concurrent clients send one request each
CanPost(r) ==
    IF concurrency = 1
    THEN /\ turns < MaxTurns
         /\ InFlight = {}
         /\ r = 1
    ELSE /\ req[r].pc = "idle"
         /\ \A r2 \in Req : r2 < r => req[r2].pc # "idle"

Apply(r, a) ==
    /\ req' = [req EXCEPT ![r] = EffOf(req[r], store, files, uuidCount, a)]
    /\ store' = StoreOf(req[r], store, uuidCount, a)
    /\ uuidCount' = UuidsOf(uuidCount, a)
    /\ turns' = IF IsPost(a) THEN turns + 1 ELSE turns
    /\ UNCHANGED <<files, concurrency, hook, fn>>

NoIn(act) == In(act, <<>>, "", TRUE, <<>>, <<>>)
OfError(act, e) == In(act, <<>>, "", TRUE, <<>>, e)
OfText(act, d) == In(act, <<>>, "", TRUE, d, <<>>)
OfBody(act, message, sessionId, dbOk) == In(act, message, sessionId, dbOk, <<>>, <<>>)

ChatPost(r, message, sessionId, dbOk) ==
    /\ CanPost(r) /\ GuardOf(req[r], NoIn("ChatPost"))
    /\ Apply(r, OfBody("ChatPost", message, sessionId, dbOk))

ChatGroqOk(r, content) ==
    /\ GuardOf(req[r], NoIn("ChatGroqOk"))
    /\ Apply(r, OfText("ChatGroqOk", content))

ChatGroqFail(r, e) ==
    /\ GuardOf(req[r], NoIn("ChatGroqFail"))
    /\ Apply(r, OfError("ChatGroqFail", e))

ChatCohereOk(r, content) ==
    /\ GuardOf(req[r], NoIn("ChatCohereOk"))
    /\ Apply(r, OfText("ChatCohereOk", content))

ChatCohereFail(r, e) ==
    /\ GuardOf(req[r], NoIn("ChatCohereFail"))
    /\ Apply(r, OfError("ChatCohereFail", e))

ChatSaveOk(r) ==
    /\ GuardOf(req[r], NoIn("ChatSaveOk"))
    /\ Apply(r, NoIn("ChatSaveOk"))

ChatSaveFail(r) ==
    /\ GuardOf(req[r], NoIn("ChatSaveFail"))
    /\ Apply(r, NoIn("ChatSaveFail"))

StreamPost(r, message, sessionId, dbOk) ==
    /\ CanPost(r) /\ GuardOf(req[r], NoIn("StreamPost"))
    /\ Apply(r, OfBody("StreamPost", message, sessionId, dbOk))

StreamGroqChunk(r, d) ==
    /\ GuardOf(req[r], NoIn("StreamGroqChunk"))
    /\ Apply(r, OfText("StreamGroqChunk", d))

StreamGroqEnd(r) ==
    /\ GuardOf(req[r], NoIn("StreamGroqEnd"))
    /\ Apply(r, NoIn("StreamGroqEnd"))

StreamGroqFail(r, e) ==
    /\ GuardOf(req[r], NoIn("StreamGroqFail"))
    /\ Apply(r, OfError("StreamGroqFail", e))

StreamCohereChunk(r, d) ==
    /\ GuardOf(req[r], NoIn("StreamCohereChunk"))
    /\ Apply(r, OfText("StreamCohereChunk", d))

StreamCohereEnd(r) ==
    /\ GuardOf(req[r], NoIn("StreamCohereEnd"))
    /\ Apply(r, NoIn("StreamCohereEnd"))

StreamCohereFail(r, e) ==
    /\ GuardOf(req[r], NoIn("StreamCohereFail"))
    /\ Apply(r, OfError("StreamCohereFail", e))

StreamSaveOk(r) ==
    /\ GuardOf(req[r], NoIn("StreamSaveOk"))
    /\ Apply(r, NoIn("StreamSaveOk"))

StreamSaveFail(r) ==
    /\ GuardOf(req[r], NoIn("StreamSaveFail"))
    /\ Apply(r, NoIn("StreamSaveFail"))

ImagePost(r, message, sessionId, dbOk, e) ==
    /\ CanPost(r) /\ GuardOf(req[r], NoIn("ImagePost"))
    /\ Apply(r, In("ImagePost", message, sessionId, dbOk, <<>>, e))

ImageSaveOk(r) ==
    /\ GuardOf(req[r], NoIn("ImageSaveOk"))
    /\ Apply(r, NoIn("ImageSaveOk"))

ImageSaveFail(r) ==
    /\ GuardOf(req[r], NoIn("ImageSaveFail"))
    /\ Apply(r, NoIn("ImageSaveFail"))

Abort(r) ==
    /\ GuardOf(req[r], NoIn("Abort"))
    /\ Apply(r, NoIn("Abort"))

----------------------------------------------------------------------------
(* hooks/useZenoChat.ts: the client hook *)

\* what the image route may answer a failed request with
ImageFailures == {<<"An unexpected error occurred">>}

\* conversations the sidebar may load
LoadTargets == {"s1"}

HookMessage(id, role, content, isStreaming) ==
    [id |-> id, role |-> role, content |-> content, isStreaming |-> isStreaming]

NoEnd == [settled |-> FALSE, error |-> <<>>, message |-> <<>>]

\* the hook after its first render; the session id is a fresh uuid
HookInit ==
    [isLoading |-> FALSE, error |-> <<>>, sessionId |-> "h0", messages |-> <<>>,
     abortControllerRef |-> 0, streams |-> <<>>, images |-> <<>>,
     loading |-> {}, loads |-> 0, newChats |-> 0, warnings |-> 0]

\* prev.map((msg) => msg.id === id ? F(msg) : msg)
MapMessage(messages, id, F(_)) ==
    [i \in 1..Len(messages) |->
        IF messages[i].id = id THEN F(messages[i]) ELSE messages[i]]

\* abortControllerRef.current.abort(): the pending fetch or read of that
\* stream will reject with an AbortError
AbortCurrent(h) ==
    LET ref == h.abortControllerRef
    IN  IF ref # 0 /\ h.streams[ref].state \in {"fetching", "reading"}
        THEN [h.streams EXCEPT ![ref].state = "aborted"]
        ELSE h.streams

\* faulty variant: the patterns are tested on the message as typed
isImageRequestUntrimmed(message) ==
    \E i \in 1..Len(IMAGE_TRIGGER_PATTERNS) :
        test(IMAGE_TRIGGER_PATTERNS[i], message)

\* isImageRequest of the hook, on its own copy of the trigger patterns
isImageRequest(message) ==
    \E i \in 1..Len(IMAGE_TRIGGER_PATTERNS) :
        test(IMAGE_TRIGGER_PATTERNS[i], trim(message))

\* sendImageRequest up to the await of fetch
SendImageRequestEff(h, content) ==
    LET id == Len(h.images) + 1
        assistantMessageId == "ia" \o ToString(id)
        userMessage == HookMessage("iu" \o ToString(id), "user", Trim(content), FALSE)
        assistantMessage ==
            [id |-> assistantMessageId, role |-> "assistant",
             content |-> <<"Generating your image...">>, isImageLoading |-> TRUE]
    IN  [h EXCEPT !.images =
                      Append(@, [state |-> "fetching", endpoint |-> "/api/image",
                                 assistantMessageId |-> assistantMessageId,
                                 message |-> Trim(content),
                                 sessionId |-> h.sessionId, stale |-> FALSE]),
                  !.messages = @ \o <<userMessage, assistantMessage>>,
                  !.isLoading = TRUE,
                  !.error = <<>>]

\* the response of POST /api/image to the message of the hook
PostImage(message, sessionId, ok, e) ==
    LET result == ImageResult(<<ImagePromptOf[message]>>, <<>>)
    IN  IF ok
        THEN [ok |-> TRUE, success |-> TRUE, sessionId |-> sessionId,
              content |-> assistantContent(result), imageUrl |-> result.imageUrl,
              error |-> <<>>]
        ELSE [ok |-> FALSE, success |-> FALSE, sessionId |-> "",
              content |-> <<>>, imageUrl |-> <<>>, error |-> e]

\* sendImageRequest from the response on
ImageResolvedEff(h, id, data) ==
    LET mid == h.images[id].assistantMessageId
        Shown(m) == [m EXCEPT !.content = data.content, !.isImageLoading = FALSE]
        Failed(m) ==
            [m EXCEPT !.content =
                          <<"Sorry, I couldn't generate the image. Please try again.">>,
                      !.isImageLoading = FALSE]
        h1 == IF data.ok /\ data.success
              THEN [h EXCEPT !.messages = MapMessage(@, mid, Shown),
                             !.sessionId =
                                 IF data.sessionId # "" THEN data.sessionId ELSE @]
              ELSE [h EXCEPT !.error = OrElse(data.error, <<"Image generation failed">>),
                             !.messages = MapMessage(@, mid, Failed)]
    IN  [h1 EXCEPT !.isLoading = FALSE, !.images[id].state = "settled"]

\* sendMessageStream up to the await of fetch
SendMessageStreamEff(h, content) ==
    LET id == Len(h.streams) + 1
        assistantMessageId == "a" \o ToString(id)
        userMessage == HookMessage("u" \o ToString(id), "user", Trim(content), FALSE)
        assistantMessage == HookMessage(assistantMessageId, "assistant", <<>>, TRUE)
    IN  IF Trim(content) = <<>> \/ h.isLoading THEN h
        ELSE IF isImageRequest(Str(content)) THEN SendImageRequestEff(h, content)
        ELSE [h EXCEPT !.streams =
                           Append(AbortCurrent(h),
                                  [state |-> "fetching", endpoint |-> "/api/chat/",
                                   assistantMessageId |-> assistantMessageId,
                                   message |-> Trim(content),
                                   sessionId |-> h.sessionId, stale |-> FALSE,
                                   received |-> <<>>, atEnd |-> NoEnd]),
                       !.abortControllerRef = id,
                       !.messages = @ \o <<userMessage, assistantMessage>>,
                       !.isLoading = TRUE,
                       !.error = <<>>]

\* catch (err) of sendMessageStream for an error that is no AbortError
StreamCatch(h, id, message) ==
    LET Failed(m) ==
            [m EXCEPT !.isStreaming = FALSE,
                      !.content = OrElse(m.content, <<"Sorry, an error occurred.">>)]
    IN  [h EXCEPT !.error = OrElse(message, <<"Stream error occurred">>),
                  !.messages = MapMessage(@, h.streams[id].assistantMessageId, Failed)]

\* finally of sendMessageStream; the stream is over
StreamFinally(h, id) ==
    LET mine(m) == m.id = h.streams[id].assistantMessageId
    IN  [h EXCEPT !.isLoading = FALSE,
                  !.abortControllerRef = 0,
                  !.streams[id].state = "settled",
                  !.streams[id].atEnd =
                      [settled |-> TRUE, error |-> h.error,
                       message |-> SelectSeq(h.messages, mine)]]

\* the fetch resolves
FetchResolvedEff(h, id, ok) ==
    IF ok THEN [h EXCEPT !.streams[id].state = "reading"]
    ELSE StreamFinally(StreamCatch(h, id, <<"Failed to connect to stream">>), id)

\* the body of the for loop over the data lines of one read: the Error thrown
\* for an error line is caught by the catch (parseErr) around it and warned.
\* Of a line the transport splits over two reads, the first part is no JSON
\* text (JSON.parse throws, the catch skips it) and the second part does not
\* start with "data: " (the filter drops it).
HandleLine(h, id, ev) ==
    LET mid == h.streams[id].assistantMessageId
        Grown(m) == [m EXCEPT !.content = @ \o ev.content]
        Ended(m) == [m EXCEPT !.isStreaming = FALSE]
    IN  CASE ev.split -> h
          [] ev.type = "error" -> [h EXCEPT !.warnings = @ + 1]
          [] ev.type = "content" /\ ev.content # <<>> ->
                [h EXCEPT !.messages = MapMessage(@, mid, Grown)]
          [] ev.type = "done" ->
                [h EXCEPT !.messages = MapMessage(@, mid, Ended),
                          !.sessionId = IF ev.sessionId # "" THEN ev.sessionId ELSE @]
          [] OTHER -> h

\* the read (the two reads, if the line is split) that delivers a line
ReadLineEff(h, id, ev) ==
    HandleLine([h EXCEPT !.streams[id].received = Append(@, ev)], id, ev)

\* reader.read() reports done: the loop ends
ReadEndEff(h, id) == StreamFinally(h, id)

\* the pending fetch or read rejects with the AbortError: catch returns
AbortSettledEff(h, id) == StreamFinally(h, id)

\* the requests that have not settled are from now on requests that were
\* issued before the session was switched
IssuedBefore(h) ==
    LET Mark(rs) == [i \in 1..Len(rs) |->
                        IF rs[i].state # "settled" THEN [rs[i] EXCEPT !.stale = TRUE]
                        ELSE rs[i]]
    IN  [h EXCEPT !.streams = Mark(@), !.images = Mark(@)]

\* GET /api/chat?sessionId=...
GetChat(st, sessionId, dbOk) ==
    IF ~dbOk THEN [success |-> FALSE, messages |-> <<>>]
    ELSE [success |-> TRUE, messages |-> FindOrNew(st, sessionId)]

\* loadConversation up to the await of fetch
LoadConversationEff(h, targetSessionId) ==
    [h EXCEPT !.isLoading = TRUE, !.loading = @ \cup {targetSessionId},
              !.loads = @ + 1]

\* loadConversation from the response on
LoadConversationDoneEff(h, targetSessionId, data) ==
    LET loaded == [i \in 1..Len(data.messages) |->
                      HookMessage("l" \o ToString(i), data.messages[i].role,
                                  data.messages[i].content, FALSE)]
        h1 == IF data.success
              THEN [IssuedBefore(h) EXCEPT !.messages = loaded,
                                           !.sessionId = targetSessionId]
              ELSE h
    IN  [h1 EXCEPT !.isLoading = FALSE, !.loading = @ \ {targetSessionId}]

startNewChatEff(h) ==
    [IssuedBefore(h) EXCEPT
              !.streams = AbortCurrent(IssuedBefore(h)),
              !.messages = <<>>,
              !.sessionId = "n" \o ToString(h.newChats + 1),
              !.error = <<>>,
              !.newChats = @ + 1]

\* a stream that was started and has neither finished nor been aborted
StreamsInFlight(h) ==
    {id \in 1..Len(h.streams) : h.streams[id].state \in {"fetching", "reading"}}

\* the lines the server may write next on the stream id
LinesOf(h, id) ==
    LET n == Len(h.streams[id].received)
        whole == {ContentEvent(<<"d" \o ToString(n + 1)>>),
                  DoneEvent(h.streams[id].sessionId),
                  ErrorEvent(UnavailableError),
                  [type |-> "json"]}
        Line(ev, split) == [l \in DOMAIN ev \cup {"split"} |->
                               IF l = "split" THEN split ELSE ev[l]]
    IN  {Line(ev, FALSE) : ev \in whole}
        \cup {Line(ev, TRUE) : ev \in {ev \in whole : ev.type \in {"content", "done"}}}

\* the stream has not delivered its terminal line
Open(h, id) ==
    /\ h.streams[id].state = "reading"
    /\ \A i \in 1..Len(h.streams[id].received) :
          h.streams[id].received[i].type \notin {"done", "error"}

\* the lines the hook has read so far
RECURSIVE LinesRead(_)
LinesRead(streams) ==
    IF streams = <<>> THEN 0
    ELSE Len(Head(streams).received) + LinesRead(Tail(streams))

HookStep(h) == hook' = h /\ UNCHANGED <<serverVars, fn>>

sendMessageStream(content) ==
    /\ Len(hook.streams) + Len(hook.images) < MaxStreams
    /\ isImageRequest(Str(content)) => Len(hook.images) < MaxImages
    /\ Trim(content) # <<>> /\ ~hook.isLoading
    /\ HookStep(SendMessageStreamEff(hook, content))

FetchResolved(id, ok) ==
    /\ id \in 1..Len(hook.streams) /\ hook.streams[id].state = "fetching"
    /\ HookStep(FetchResolvedEff(hook, id, ok))

ImageResolved(id, ok, e) ==
    /\ id \in 1..Len(hook.images) /\ hook.images[id].state = "fetching"
    /\ HookStep(ImageResolvedEff(hook, id,
                                 PostImage(hook.images[id].message,
                                           hook.images[id].sessionId, ok, e)))

ReadLine(id, ev) ==
    /\ id \in 1..Len(hook.streams) /\ Open(hook, id)
    /\ LinesRead(hook.streams) < MaxReads
    /\ HookStep(ReadLineEff(hook, id, ev))

ReadEnd(id) ==
    /\ id \in 1..Len(hook.streams) /\ hook.streams[id].state = "reading"
    /\ HookStep(ReadEndEff(hook, id))

AbortSettled(id) ==
    /\ id \in 1..Len(hook.streams) /\ hook.streams[id].state = "aborted"
    /\ HookStep(AbortSettledEff(hook, id))

loadConversation(targetSessionId) ==
    /\ targetSessionId \notin hook.loading /\ hook.loads < MaxLoads
    /\ HookStep(LoadConversationEff(hook, targetSessionId))

LoadConversationDone(targetSessionId, dbOk) ==
    /\ targetSessionId \in hook.loading
    /\ HookStep(LoadConversationDoneEff(hook, targetSessionId,
                                        GetChat(store, targetSessionId, dbOk)))

startNewChat ==
    /\ hook.newChats < MaxNewChats
    /\ HookStep(startNewChatEff(hook))

NextHook ==
    \/ \E c \in HookContents : sendMessageStream(c)
    \/ \E id \in 1..MaxStreams, ok \in BOOLEAN : FetchResolved(id, ok)
    \/ \E id \in 1..MaxImages, ok \in BOOLEAN, e \in ImageFailures :
          ImageResolved(id, ok, e)
    \/ \E id \in 1..Len(hook.streams) : \E ev \in LinesOf(hook, id) : ReadLine(id, ev)
    \/ \E id \in 1..MaxStreams : ReadEnd(id)
    \/ \E id \in 1..MaxStreams : AbortSettled(id)
    \/ \E t \in LoadTargets : loadConversation(t)
    \/ \E t \in LoadTargets, ok \in BOOLEAN : LoadConversationDone(t, ok)
    \/ startNewChat

----------------------------------------------------------------------------
(* The pure functions, applied to an input *)

\* no function is under study
NoFn ==
    [kind |-> "none", message |-> "", text |-> <<>>, maxChars |-> 0,
     classified |-> FALSE, isImage |-> FALSE,
     extracted |-> FALSE, prompt |-> "",
     truncated |-> FALSE, out |-> <<>>]

FnStep(f) == fn' = f /\ UNCHANGED <<serverVars, hook>>

CallIsImageGenerationRequest ==
    /\ fn.kind = "router" /\ ~fn.classified
    /\ FnStep([fn EXCEPT !.classified = TRUE,
                         !.isImage = isImageGenerationRequest(fn.message)])

CallExtractImagePrompt ==
    /\ fn.kind = "router" /\ ~fn.extracted
    /\ FnStep([fn EXCEPT !.extracted = TRUE,
                         !.prompt = extractImagePrompt(fn.message)])

CallTruncateForContext ==
    /\ fn.kind = "truncate" /\ ~fn.truncated
    /\ FnStep([fn EXCEPT !.truncated = TRUE,
                         !.out = truncateForContext(fn.text, fn.maxChars)])

----------------------------------------------------------------------------
(* The specification: a client that sends one request at a time *)

InitStore ==
    /\ \E h \in HistLens :
          store = IF h = 0 THEN NoStore ELSE [s \in {"s1"} |-> History(h)]
    /\ files \in {<<>>, <<FailedFile, ReadyFile>>}
    /\ req = [r \in Req |-> IdleReq]
    /\ uuidCount = 0
    /\ turns = 0
    /\ fn = NoFn

Init == InitStore /\ concurrency = 1 /\ hook = HookInit

Next ==
    \E r \in Req :
        \/ \E m \in Messages, s \in SessionIds, ok \in BOOLEAN : ChatPost(r, m, s, ok)
        \/ \E c \in GroqDeltas(1) : ChatGroqOk(r, c)
        \/ \E e \in ErrTexts : ChatGroqFail(r, e)
        \/ \E c \in CohereDeltas(1) : ChatCohereOk(r, c)
        \/ \E e \in ErrTexts : ChatCohereFail(r, e)
        \/ ChatSaveOk(r)
        \/ ChatSaveFail(r)
        \/ \E m \in Messages, s \in SessionIds, ok \in BOOLEAN : StreamPost(r, m, s, ok)
        \/ \E d \in GroqDeltas(Len(req[r].groqOut) + 1) : StreamGroqChunk(r, d)
        \/ StreamGroqEnd(r)
        \/ \E e \in ErrTexts : StreamGroqFail(r, e)
        \/ \E d \in CohereDeltas(Len(req[r].cohereOut) + 1) : StreamCohereChunk(r, d)
        \/ StreamCohereEnd(r)
        \/ \E e \in ErrTexts : StreamCohereFail(r, e)
        \/ StreamSaveOk(r)
        \/ StreamSaveFail(r)
        \/ \E m \in ImageMessages, s \in SessionIds, ok \in BOOLEAN,
              e \in ImageErrors : ImagePost(r, m, s, ok, e)
        \/ ImageSaveOk(r)
        \/ ImageSaveFail(r)

Spec == Init /\ [][Next]_vars

----------------------------------------------------------------------------
(* The specification of a client that may abort the transport of its       *)
(* streaming request at any moment.                                        *)

NextAbort ==
    \/ Next
    \/ \E r \in Req : Abort(r)

SpecAbort == Init /\ [][NextAbort]_vars

----------------------------------------------------------------------------
(* The specification of two clients whose requests may overlap: each sends *)
(* one well-formed request, the handlers interleave at their awaits.       *)

\* message bodies of the overlapping requests
ConcMessages == {<<" ", "h", "i", " ">>}

\* both requests name the stored session
ConcSessionIds == {"s1"}

\* the raw error text of a failing provider
ConcErrTexts == {<<"ECONNRESET">>}

InitConc == InitStore /\ concurrency = 2 /\ hook = HookInit

NextConc ==
    \E r \in Req :
        \/ \E m \in ConcMessages, s \in ConcSessionIds : ChatPost(r, m, s, TRUE)
        \/ \E c \in GroqDeltas(1) : ChatGroqOk(r, c)
        \/ \E e \in ConcErrTexts : ChatGroqFail(r, e)
        \/ \E c \in CohereDeltas(1) : ChatCohereOk(r, c)
        \/ \E e \in ConcErrTexts : ChatCohereFail(r, e)
        \/ ChatSaveOk(r)
        \/ ChatSaveFail(r)
        \/ \E m \in ConcMessages, s \in ConcSessionIds : StreamPost(r, m, s, TRUE)
        \/ \E d \in GroqDeltas(Len(req[r].groqOut) + 1) : StreamGroqChunk(r, d)
        \/ StreamGroqEnd(r)
        \/ \E e \in ConcErrTexts : StreamGroqFail(r, e)
        \/ \E d \in CohereDeltas(Len(req[r].cohereOut) + 1) : StreamCohereChunk(r, d)
        \/ StreamCohereEnd(r)
        \/ \E e \in ConcErrTexts : StreamCohereFail(r, e)
        \/ StreamSaveOk(r)
        \/ StreamSaveFail(r)
        \/ \E m \in ConcMessages, s \in ConcSessionIds :
              ImagePost(r, m, s, TRUE, <<>>)
        \/ ImageSaveOk(r)
        \/ ImageSaveFail(r)

SpecConc == InitConc /\ [][NextConc]_vars

----------------------------------------------------------------------------
(* Two executions of one turn that differ only in the raw error texts of   *)
(* the providers: slot 1 holds the first, slot 2 the second.               *)

TwinApply(a, b) ==
    /\ GuardOf(req[1], a) /\ GuardOf(req[2], b)
    /\ IsPost(a) => turns = 0
    /\ req' = [req EXCEPT ![1] = EffOf(req[1], store, files, uuidCount, a),
                          ![2] = EffOf(req[2], store, files, uuidCount, b)]
    /\ store' = StoreOf(req[1], store, uuidCount, a)
    /\ uuidCount' = UuidsOf(uuidCount, a)
    /\ turns' = IF IsPost(a) THEN turns + 1 ELSE turns
    /\ UNCHANGED <<files, concurrency, hook, fn>>

TwinPost(act, message, sessionId, dbOk) ==
    /\ act \in {"ChatPost", "StreamPost"}
    /\ TwinApply(OfBody(act, message, sessionId, dbOk),
                 OfBody(act, message, sessionId, dbOk))

TwinProviderText(act, d) ==
    /\ act \in {"ChatGroqOk", "ChatCohereOk", "StreamGroqChunk", "StreamCohereChunk"}
    /\ TwinApply(OfText(act, d), OfText(act, d))

TwinProviderFail(act, e1, e2) ==
    /\ act \in {"ChatGroqFail", "ChatCohereFail", "StreamGroqFail", "StreamCohereFail"}
    /\ TwinApply(OfError(act, e1), OfError(act, e2))

TwinOther(act) ==
    /\ act \in {"ChatSaveOk", "ChatSaveFail", "StreamGroqEnd", "StreamCohereEnd",
                "StreamSaveOk", "StreamSaveFail"}
    /\ TwinApply(NoIn(act), NoIn(act))

Acts ==
    {"ChatPost", "ChatGroqOk", "ChatGroqFail", "ChatCohereOk", "ChatCohereFail",
     "ChatSaveOk", "ChatSaveFail", "StreamPost", "StreamGroqChunk", "StreamGroqEnd",
     "StreamGroqFail", "StreamCohereChunk", "StreamCohereEnd", "StreamCohereFail",
     "StreamSaveOk", "StreamSaveFail"}

\* the texts a provider may answer the step act with
TextsOf(act, q) ==
    CASE act = "ChatGroqOk" -> GroqDeltas(1)
      [] act = "ChatCohereOk" -> CohereDeltas(1)
      [] act = "StreamGroqChunk" -> GroqDeltas(Len(q.groqOut) + 1)
      [] act = "StreamCohereChunk" -> CohereDeltas(Len(q.cohereOut) + 1)
      [] OTHER -> {}

TwinNext ==
    \E act \in Acts :
        \/ \E m \in Messages, s \in SessionIds, ok \in BOOLEAN : TwinPost(act, m, s, ok)
        \/ \E d \in TextsOf(act, req[1]) : TwinProviderText(act, d)
        \/ \E e1 \in ErrTexts, e2 \in ErrTexts : TwinProviderFail(act, e1, e2)
        \/ TwinOther(act)

SpecTwin == Init /\ [][TwinNext]_vars

----------------------------------------------------------------------------
(* The specification of one hook instance: the user sends, loads and starts *)
(* new chats while the streams deliver their lines.                         *)

\* the sidebar lists one stored conversation
InitHook ==
    /\ Init
    /\ files = <<>>
    /\ \A t \in LoadTargets : t \in DOMAIN store /\ Len(store[t]) < ContextWindow

SpecHook == InitHook /\ [][NextHook]_vars

----------------------------------------------------------------------------
(* The specification of one hook instance whose user sends messages and     *)
(* starts new chats; the requests settle without delivering a line.         *)

NextSend ==
    \/ \E c \in HookContents : sendMessageStream(c)
    \/ \E id \in 1..MaxStreams, ok \in BOOLEAN : FetchResolved(id, ok)
    \/ \E id \in 1..MaxImages, ok \in BOOLEAN, e \in ImageFailures :
          ImageResolved(id, ok, e)
    \/ \E id \in 1..MaxStreams : ReadEnd(id)
    \/ \E id \in 1..MaxStreams : AbortSettled(id)
    \/ startNewChat

SpecSend == InitHook /\ [][NextSend]_vars

----------------------------------------------------------------------------
(* The specification of the pure functions: the router on a message, the   *)
(* truncation on a text and a budget.                                      *)

\* messages the router is applied to: a verb, an article, a noun, a
\* preposition and a subject, or one of a few others
RouterVerbs == {"generate", "create", "make", "draw", "paint", "show me", "imagine"}
RouterArticles == {" ", " a ", " an "}
RouterNouns == {"", "image ", "artwork ", "art "}
RouterPrepositions == {"", "of ", "for "}
RouterSubjects == {"a red bicycle", "forest", "me"}

RouterMessages ==
    {v \o a \o n \o p \o s :
        v \in RouterVerbs, a \in RouterArticles, n \in RouterNouns,
        p \in RouterPrepositions, s \in RouterSubjects}
    \cup {"", "  ", "hi", "  Draw a CAT  ", "what is art", "paint",
          "imagine\ta dog", "design-doc review", "visualize", "Give me a photo of it"}

\* the longest text the truncation is applied to
MaxTextLen == 7
\* the largest budget of the truncation
MaxBudget == 5

TruncateTexts == {[i \in 1..n |-> ToString(i)] : n \in 0..MaxTextLen}

InitPure ==
    /\ store = NoStore
    /\ files = <<>>
    /\ req = [r \in Req |-> IdleReq]
    /\ uuidCount = 0
    /\ turns = 0
    /\ concurrency = 1
    /\ hook = HookInit
    /\ \/ \E m \in RouterMessages :
             fn = [NoFn EXCEPT !.kind = "router", !.message = m]
       \/ \E t \in TruncateTexts, b \in 0..MaxBudget :
             fn = [NoFn EXCEPT !.kind = "truncate", !.text = t, !.maxChars = b]

NextPure ==
    \/ CallIsImageGenerationRequest
    \/ CallExtractImagePrompt
    \/ CallTruncateForContext

SpecPure == InitPure /\ [][NextPure]_vars

----------------------------------------------------------------------------
(* Vocabulary of the properties *)

\* the request was accepted: validation passed and the conversation was loaded
Accepted(q) == q.groqCalls > 0

IsStream(q) == q.kind = "stream" /\ Accepted(q)
IsChat(q) == q.kind = "chat" /\ Accepted(q)

NonEmpty(ds) == SelectSeq(ds, LAMBDA d : d # <<>>)

CallsOf(q, name) == SelectSeq(q.cb, LAMBDA c : c.cb = name)

ChunkCalls(ds) == [i \in 1..Len(ds) |-> [cb |-> "onChunk", arg |-> ds[i]]]

IsTerminal(ev) == ev.type \in {"done", "error"}

Terminals(q) == SelectSeq(q.events, IsTerminal)

HasEvent(q, type) == \E i \in 1..Len(q.events) : q.events[i].type = type

BothFailed(q) == q.groqResult = "fail" /\ q.cohereResult = "fail"

\* the turn ended in failure as the client sees it
FailedTurn(q) ==
    \/ IsChat(q) /\ q.status = 500 /\ BothFailed(q)
    \/ IsStream(q) /\ HasEvent(q, "error")

\* what the client observes of a request
ClientView(q) ==
    [status |-> q.status, body |-> q.body, events |-> q.events, closed |-> q.closed]

IsPrefix(a, b) == Len(a) <= Len(b) /\ SubSeq(b, 1, Len(a)) = a

\* the chat turn reported success to its client
TurnSucceeded(q) ==
    \/ IsChat(q) /\ q.pc = "done" /\ q.status = 200
    \/ IsStream(q) /\ HasEvent(q, "done")

\* the text of the content lines among evs, in order
RECURSIVE Concat(_)
Concat(evs) ==
    IF evs = <<>> THEN <<>>
    ELSE (IF Head(evs).type = "content" THEN Head(evs).content ELSE <<>>)
         \o Concat(Tail(evs))

\* two chat turns on one session that loaded before either saved
Overlapped(a, b) ==
    /\ a.currentSessionId = b.currentSessionId
    /\ a.loadedLen = b.loadedLen

----------------------------------------------------------------------------
(* C1 *)

\* C1: when PRIMARY fails after k > 0 chunks were delivered, FALLBACK is never
\* called, onDone is never invoked, and onError is invoked exactly once, last.
C1_NoFallbackAfterPartial ==
    \A r \in Req :
        LET q == req[r]
        IN  (IsStream(q) /\ q.groqResult = "fail" /\ q.chunksAtGroqFail > 0) =>
                /\ q.cohereCalls = 0
                /\ CallsOf(q, "onDone") = <<>>
                /\ q.pc = "done" =>
                      /\ Len(CallsOf(q, "onError")) = 1
                      /\ q.cb[Len(q.cb)].cb = "onError"

----------------------------------------------------------------------------
(* C2 *)

\* C2: when PRIMARY fails before any delta was delivered and FALLBACK runs to
\* its end, the callbacks invoked are exactly one onChunk per FALLBACK text
\* delta, in the order FALLBACK produced them, then one onDone; no onError.
C2_FallbackDeliveredInOrder ==
    \A r \in Req :
        LET q == req[r]
        IN  (IsStream(q) /\ q.groqResult = "fail" /\ q.chunksAtGroqFail = 0
             /\ q.cohereResult = "ok") =>
                /\ q.cb = ChunkCalls(NonEmpty(q.cohereOut))
                          \o <<[cb |-> "onDone", arg |-> <<>>]>>
                /\ CallsOf(q, "onError") = <<>>
                /\ ~HasEvent(q, "error")

C2_Witness ==
    \E r \in Req :
        LET q == req[r]
        IN  /\ IsStream(q) /\ q.groqResult = "fail" /\ q.chunksAtGroqFail = 0
            /\ q.cohereResult = "ok"
            /\ Len(NonEmpty(q.cohereOut)) >= 2

----------------------------------------------------------------------------
(* C3 *)

\* C3: a streaming request that passed validation and has run to its end wrote
\* content events followed by exactly one terminal event, and closed the
\* transport exactly once; before that, no event follows a terminal event.
C3_ExactlyOneTerminal ==
    \A r \in Req :
        LET q == req[r]
            n == Len(q.events)
        IN  IsStream(q) =>
                /\ \A i \in 1..n : IsTerminal(q.events[i]) => i = n
                /\ q.closed = Len(Terminals(q))
                /\ q.pc = "done" => Len(Terminals(q)) = 1 /\ q.closed = 1

----------------------------------------------------------------------------
(* C4 *)

----------------------------------------------------------------------------
(* C5 *)

\* C5: in one call of the engine PRIMARY is called exactly once and FALLBACK at
\* most once, FALLBACK only after PRIMARY failed; once FALLBACK has failed the
\* call is over and nothing was called again.
C5_SingleFallbackHop ==
    \A r \in Req :
        LET q == req[r]
        IN  /\ q.groqCalls <= 1 /\ q.cohereCalls <= 1
            /\ (q.kind # "image" /\ q.pc \in {"groq", "cohere", "saving"}) =>
                  q.groqCalls = 1
            /\ q.cohereCalls = 1 => q.groqResult = "fail"
            /\ q.groqResult = "fail" => q.cohereCalls = 1
            /\ q.cohereResult = "fail" =>
                  q.pc = "done" /\ q.groqCalls = 1 /\ q.cohereCalls = 1

C5_Witness ==
    \E r \in Req : BothFailed(req[r]) /\ req[r].kind = "stream"

----------------------------------------------------------------------------
(* C6 *)

----------------------------------------------------------------------------
(* C7 *)

\* C7: two executions of one turn that differ only in the raw error texts of
\* the providers show the client the same status, body, events and closing;
\* nothing the client sees contains a raw error text.
C7_ErrorTextsNotObservable ==
    /\ ClientView(req[1]) = ClientView(req[2])
    /\ \A r \in Req, e \in ErrTexts :
          /\ ~References(req[r].body, e)
          /\ \A i \in 1..Len(req[r].events) :
                req[r].events[i].type = "error" => ~References(req[r].events[i].error, e)

C7_Witness ==
    /\ BothFailed(req[1]) /\ BothFailed(req[2])
    /\ req[1].kind = "stream" /\ HasEvent(req[1], "error")
    /\ req[1].groqErr # req[2].groqErr
    /\ req[1].cohereErr # req[2].cohereErr
    /\ req[1].log # req[2].log

----------------------------------------------------------------------------
(* C8 *)

\* C8: in a streaming request, once onDone was invoked exactly one assistant
\* message was appended and save was called exactly once; a done event is
\* written only when that save has completed, it is the last event, and it
\* carries the session id the conversation is stored under: the id of the
\* request, or a fresh id when the request had none.
C8_DoneAfterSingleSave ==
    \A r \in Req :
        LET q == req[r]
            n == Len(q.events)
        IN  IsStream(q) =>
                /\ CallsOf(q, "onDone") # <<>> =>
                      /\ Len(CallsOf(q, "onDone")) = 1
                      /\ q.pushes = 1 /\ q.saveCalls = 1
                      /\ q.conv = SubSeq(q.conv, 1, q.loadedLen + 1)
                                  \o <<Msg("assistant", q.fullResponse)>>
                /\ HasEvent(q, "done") =>
                      /\ q.saved /\ q.saveCalls = 1 /\ q.pushes = 1
                      /\ q.events[n] = DoneEvent(q.currentSessionId)
                      /\ q.currentSessionId \in DOMAIN store
                      /\ store[q.currentSessionId] = q.conv
                      /\ q.sessionId # "" => q.currentSessionId = q.sessionId
                      /\ q.sessionId = "" =>
                            q.currentSessionId \notin DOMAIN q.storeBefore \cup SessionIds

C8_Witness ==
    \E r \in Req :
        LET q == req[r]
        IN  IsStream(q) /\ HasEvent(q, "done") /\ q.sessionId = ""
            /\ Len(q.fullResponse) >= 2

----------------------------------------------------------------------------
(* C9 *)

\* C9: after a failed turn (blocking 500 with both providers failed, or a
\* streaming error event) the store is as it was when the request arrived and
\* the request never called save.
C9_FailedTurnLeavesStore ==
    \A r \in Req :
        LET q == req[r]
        IN  FailedTurn(q) =>
                /\ store = q.storeBefore
                /\ q.saveCalls = 0
                /\ ~q.saved

C9_Witness ==
    \E r \in Req :
        LET q == req[r]
        IN  /\ FailedTurn(q) /\ q.kind = "stream" /\ q.sessionId = ""
            /\ HasEvent(q, "content")

----------------------------------------------------------------------------
(* C10 *)

\* C10: the list submitted to the engine is the last min(ContextWindow, n)
\* messages of the conversation with the new user message appended (n
\* messages), in order, with the same roles and contents, except that the
\* content of the first one may carry a prefix on the blocking route; a list of
\* 26 yields its messages at the 0-based indices 6..25.
C10_WindowIsSuffix ==
    /\ Slice([i \in 1..26 |-> i - 1], -ContextWindow) = [i \in 1..20 |-> i + 5]
    /\ \A r \in Req :
          LET q == req[r]
              n == q.loadedLen + 1
              k == IF n < 20 THEN n ELSE 20
              ctx == q.contextMessages
          IN  Accepted(q) =>
                  /\ Len(ctx) = k
                  /\ Tail(q.groqWire) = ctx
                  /\ \A i \in 1..k :
                        LET m == q.conv[n - k + i]
                            c == ctx[i].content
                        IN  /\ ctx[i].role = m.role
                            /\ \/ c = m.content
                               \/ /\ i = 1 /\ q.kind = "chat"
                                  /\ Len(c) > Len(m.content)
                                  /\ SubSeq(c, Len(c) - Len(m.content) + 1, Len(c))
                                        = m.content

C10_Witness ==
    \E r \in Req :
        LET q == req[r]
        IN  Accepted(q) /\ q.loadedLen + 1 > ContextWindow
            /\ Len(q.contextMessages) = ContextWindow

----------------------------------------------------------------------------
(* C11 *)

\* C11: on the blocking route, when the session has a ready file and the first
\* message of the window is a user message, the first submitted content is the
\* prefix built from the ready files followed by the original content and every
\* other submitted message is the stored one; when no file is ready or the
\* window starts on an assistant message, every submitted message is the
\* stored one.
C11_PrefixOnLeadingUserOnly ==
    \A r \in Req :
        LET q == req[r]
            n == q.loadedLen + 1
            k == Min(n, ContextWindow)
            ready == FindReadyFiles(files, q.currentSessionId)
            prefix == FileContextPrefix(ready)
            ctx == q.contextMessages
        IN  IsChat(q) =>
                /\ Len(ctx) = k
                /\ ready # <<>> => prefix # <<>>
                /\ (ready # <<>> /\ q.conv[n - k + 1].role = "user") =>
                      /\ ctx[1] = Msg("user", prefix \o q.conv[n - k + 1].content)
                      /\ \A i \in 2..k : ctx[i] = q.conv[n - k + i]
                /\ (ready = <<>> \/ q.conv[n - k + 1].role = "assistant") =>
                      \A i \in 1..k : ctx[i] = q.conv[n - k + i]

C11_Witness ==
    \E r \in Req :
        LET q == req[r]
        IN  /\ IsChat(q) /\ q.loadedLen = 18
            /\ FindReadyFiles(files, q.currentSessionId) # <<>>
            /\ q.contextMessages[1].content # q.conv[1].content
            /\ q.contextMessages[19] = q.conv[19]

----------------------------------------------------------------------------
(* C12 *)

\* C12: the streaming route submits the list the blocking route would submit
\* for the same stored conversation, ready files and incoming message, the
\* file context included.
C12_StreamSubmitsBlockingList ==
    \A r \in Req :
        LET q == req[r]
            pushed == SubSeq(q.conv, 1, q.loadedLen + 1)
            ready == FindReadyFiles(files, q.currentSessionId)
        IN  IsStream(q) =>
                q.contextMessages = ChatContextMessages(pushed, FileContextPrefix(ready))

----------------------------------------------------------------------------
(* C13 *)

\* C13: building the context leaves the conversation alone: the document of a
\* blocking request holds the loaded messages and the new user message with
\* their own content, and after a successful turn the stored list is the
\* list stored before with the user and the assistant message appended, every
\* other conversation being as before.
C13_ContextLeavesConversation ==
    \A r \in Req :
        LET q == req[r]
            sid == q.currentSessionId
            before == FindOrNew(q.storeBefore, sid)
            user == Msg("user", Trim(q.message))
        IN  IsChat(q) =>
                /\ SubSeq(q.conv, 1, q.loadedLen + 1) = Append(before, user)
                /\ (q.pc = "done" /\ q.status = 200) =>
                      /\ DOMAIN store = DOMAIN q.storeBefore \cup {sid}
                      /\ store[sid] = before \o <<user, Msg("assistant", q.fullResponse)>>
                      /\ \A s \in DOMAIN q.storeBefore : s # sid => store[s] = q.storeBefore[s]

C13_Witness ==
    \E r \in Req :
        LET q == req[r]
        IN  /\ IsChat(q) /\ q.pc = "done" /\ q.status = 200 /\ q.loadedLen = 18
            /\ q.contextMessages[1].content # <<"1">>
            /\ store[q.currentSessionId][1].content = <<"1">>
            /\ Len(store[q.currentSessionId]) = 20

----------------------------------------------------------------------------
(* C14 *)

\* C14: on the blocking and on the streaming route, a message that is empty
\* after trimming or longer than MaxMessageLength characters is answered with
\* status 400, no provider having been called and the store neither read for
\* the request nor written.
C14_BadMessageRejected ==
    \A r \in Req :
        LET q == req[r]
        IN  (q.kind \in {"chat", "stream"}
             /\ (Trim(q.message) = <<>> \/ CharLen(q.message) > MaxMessageLength)) =>
                /\ q.status = 400
                /\ q.groqCalls = 0 /\ q.cohereCalls = 0
                /\ q.conv = <<>> /\ q.saveCalls = 0
                /\ store = q.storeBefore

----------------------------------------------------------------------------
(* C15 *)

\* C15: in every step and for every session id, the list stored before the
\* step is a prefix of the list stored after it: stored messages are never
\* reordered, changed or removed.
C15_StoredListOnlyGrows ==
    [][\A s \in DOMAIN store :
          s \in DOMAIN store' /\ IsPrefix(store[s], store'[s])]_vars

----------------------------------------------------------------------------
(* C16 *)

\* C16: two chat turns on one session id that both loaded the conversation
\* before either saved are not serialized: when both have reported success,
\* the stored conversation is the document of one of them, two messages longer
\* than what they loaded, so the user and the assistant message of the other
\* are not stored.
C16_OverlappingTurnsLoseMessages ==
    \A r1 \in Req, r2 \in Req :
        LET a == req[r1]
            b == req[r2]
            sid == a.currentSessionId
        IN  (r1 # r2 /\ TurnSucceeded(a) /\ TurnSucceeded(b) /\ Overlapped(a, b)) =>
                /\ sid \in DOMAIN store
                /\ store[sid] \in {a.conv, b.conv}
                /\ Len(store[sid]) = a.loadedLen + 2
                /\ Len(a.conv) = a.loadedLen + 2 /\ Len(b.conv) = b.loadedLen + 2

C16_Witness ==
    LET a == req[1]
        b == req[2]
    IN  /\ TurnSucceeded(a) /\ TurnSucceeded(b) /\ Overlapped(a, b)
        /\ a.kind = "chat" /\ b.kind = "stream"
        /\ a.fullResponse # b.fullResponse
        /\ store[a.currentSessionId] = b.conv
        /\ \A i \in 1..Len(store[a.currentSessionId]) :
              store[a.currentSessionId][i].content # a.fullResponse

----------------------------------------------------------------------------
(* C17 *)

\* C17: once the client has aborted the transport of a streaming request, the
\* server writes no further event for it, starts no further provider call and
\* starts no save of the assistant message.
C17_NoSideEffectAfterAbort ==
    \A r \in Req :
        LET q == req[r]
        IN  q.aborted =>
                /\ Len(q.events) = q.atAbort.events
                /\ q.groqCalls + q.cohereCalls = q.atAbort.calls
                /\ q.saveCalls = q.atAbort.saveCalls
                /\ q.atAbort.saveCalls = 0 => ~q.saved

----------------------------------------------------------------------------
(* C18 *)

\* C18: for one hook instance, at most one stream is in flight (started and
\* neither finished nor aborted) at any time.
C18_SingleFlight == Cardinality(StreamsInFlight(hook)) <= 1

----------------------------------------------------------------------------
(* C19 *)

\* C19: when a stream has delivered k >= 0 content lines and then an error
\* line, the hook ends the stream with its error state set to the message of
\* the error line and with the assistant message of the stream no longer
\* streaming, its content being the k deltas in order, or the fixed apology
\* when k = 0.
C19_ErrorLineEndsStream ==
    \A id \in 1..Len(hook.streams) :
        LET st == hook.streams[id]
            n == Len(st.received)
        IN  (/\ st.atEnd.settled /\ n > 0
             /\ st.received[n].type = "error"
             /\ \A i \in 1..(n - 1) : st.received[i].type = "content") =>
                /\ st.atEnd.error = st.received[n].error
                /\ \A i \in 1..Len(st.atEnd.message) :
                      /\ ~st.atEnd.message[i].isStreaming
                      /\ st.atEnd.message[i].content =
                            IF n = 1 THEN <<"Sorry, an error occurred.">>
                            ELSE Concat(st.received)

----------------------------------------------------------------------------
(* C20 *)

\* C20: a streaming request that passed validation and has run to its end has
\* written a terminal event and closed the transport; when the save of the
\* conversation failed after the provider had finished, that terminal event
\* is an error event.
C20_StreamEndsWithTerminal ==
    \A r \in Req :
        LET q == req[r]
            n == Len(q.events)
        IN  (IsStream(q) /\ q.pc = "done") =>
                /\ n > 0 /\ IsTerminal(q.events[n])
                /\ q.closed > 0
                /\ (q.saveCalls > 0 /\ ~q.saved) => q.events[n].type = "error"

----------------------------------------------------------------------------
(* C22 *)

\* match[0].length of the first trigger pattern, from the i-th on, that
\* matches the trimmed message; -1 when none matches
RECURSIVE TriggerLengthFrom(_, _)
TriggerLengthFrom(trimmed, i) ==
    IF i > Len(IMAGE_TRIGGER_PATTERNS) THEN -1
    ELSE LET n == matchLength(IMAGE_TRIGGER_PATTERNS[i], trimmed)
         IN  IF n >= 0 THEN n ELSE TriggerLengthFrom(trimmed, i + 1)

TriggerLength(trimmed) == TriggerLengthFrom(trimmed, 1)

IsSuffixStr(a, b) ==
    Len(a) <= Len(b) /\ Sub(b, Len(b) - Len(a) + 1, Len(b)) = a

\* C22: the prompt extracted from a message is the trimmed message without
\* its trigger phrase: a message that matches no trigger pattern, or whose
\* remainder is shorter than 3 characters, is returned whole (trimmed);
\* otherwise the whole trigger phrase is gone, so the prompt lies within what
\* follows it (or is the whole message); it is shorter than 3 characters only
\* if it is the whole message; "generate an image of a red bicycle" gives
\* "a red bicycle".
C22_PromptIsMessageWithoutTrigger ==
    (fn.kind = "router" /\ fn.extracted) =>
        LET trimmed == trim(fn.message)
            n == TriggerLength(trimmed)
            rest == trim(substring(trimmed, n))
        IN  /\ Len(fn.prompt) >= 3 \/ fn.prompt = trimmed
            /\ n < 0 => fn.prompt = trimmed
            /\ (n >= 0 /\ Len(rest) < 3) => fn.prompt = trimmed
            /\ n >= 0 => fn.prompt = trimmed \/ IsSuffixStr(fn.prompt, rest)
            /\ fn.message = "generate an image of a red bicycle"
                  => fn.prompt = "a red bicycle"

----------------------------------------------------------------------------
(* C25 *)

MarkerOf(n) ==
    <<"\n\n[... content truncated for length (", ToString(n),
      " chars total) ...]\n\n">>

\* the text fn.out is the first and the last floor(maxChars / 2) tokens of
\* fn.text around a marker that states n
HalvesAround(n) ==
    LET halfMax == fn.maxChars \div 2
    IN  fn.out = SubSeq(fn.text, 1, halfMax) \o MarkerOf(n)
                 \o SubSeq(fn.text, Len(fn.text) - halfMax + 1, Len(fn.text))

\* C25 as stated: a text within the budget is returned unchanged; a longer one
\* yields its first floor(B/2) characters, a marker and its last floor(B/2)
\* characters, and the marker states the length of the omitted part.
C25_MarkerStatesOmittedLength ==
    (fn.kind = "truncate" /\ fn.truncated) =>
        IF Len(fn.text) <= fn.maxChars THEN fn.out = fn.text
        ELSE HalvesAround(Len(fn.text) - 2 * (fn.maxChars \div 2))

\* C25, amended: a text within the budget is returned unchanged; a longer one
\* yields its first floor(B/2) characters, a marker and its last floor(B/2)
\* characters, and the marker states the length of the whole text.
C25_MarkerStatesTotalLength ==
    (fn.kind = "truncate" /\ fn.truncated) =>
        IF Len(fn.text) <= fn.maxChars THEN fn.out = fn.text
        ELSE HalvesAround(Len(fn.text))

\* a text over an odd budget has been truncated
C25_Witness ==
    /\ fn.kind = "truncate" /\ fn.truncated
    /\ fn.maxChars = 3 /\ Len(fn.text) = 6
    /\ fn.out = <<"1">> \o MarkerOf(6) \o <<"6">>

----------------------------------------------------------------------------
(* C21 *)

\* the trimmed contents that match at least one trigger pattern
TriggerMatching ==
    {Trim(c) : c \in {c \in HookContents :
                         \E i \in 1..Len(IMAGE_TRIGGER_PATTERNS) :
                             test(IMAGE_TRIGGER_PATTERNS[i], Str(Trim(c)))}}

----------------------------------------------------------------------------
(* C27 *)

\* C27: once the server has written done on a stream and the stream is over,
\* the content of the assistant message the hook assembled is the
\* concatenation of all the deltas the server wrote, however the transport
\* split the lines into reads.
C27_ClientTextIsPersistedText ==
    \A id \in 1..Len(hook.streams) :
        LET st == hook.streams[id]
        IN  (/\ st.atEnd.settled
             /\ st.atEnd.message # <<>>
             /\ \E i \in 1..Len(st.received) : st.received[i].type = "done") =>
                st.atEnd.message[1].content = Concat(st.received)

----------------------------------------------------------------------------
(* C30 *)

\* C30: the session id of the hook changes only by startNewChat, by a
\* loadConversation, or by the response of a request that was issued after the
\* last startNewChat or successful loadConversation.
C30_SessionIdNotSetByStaleResponse ==
    [][hook'.sessionId # hook.sessionId =>
          \/ hook'.newChats # hook.newChats
          \/ hook'.loading # hook.loading
          \/ \E id \in 1..Len(hook.streams) :
                /\ Len(hook'.streams[id].received) > Len(hook.streams[id].received)
                /\ ~hook.streams[id].stale
          \/ \E id \in 1..Len(hook.images) :
                /\ hook'.images[id].state # hook.images[id].state
                /\ ~hook.images[id].stale]_vars

----------------------------------------------------------------------------
(* C23 *)

\* C23: an image turn calls neither provider and no stream callback and
\* writes no event; once saved it has pushed two messages and saved once, and
\* the stored conversation is the loaded one followed by the trimmed user
\* message and one assistant message that contains the image URL; when the
\* generation failed the store is untouched: nothing was loaded, pushed or
\* saved.
C23_ImageTurnFrame ==
    \A r \in Req :
        LET q == req[r]
            sid == q.currentSessionId
            before == FindOrNew(q.storeBefore, sid)
            result == ImageResult(<<extractImagePrompt(Str(q.message))>>, <<>>)
        IN  q.kind = "image" =>
                /\ q.groqCalls = 0 /\ q.cohereCalls = 0
                /\ q.cb = <<>> /\ q.events = <<>>
                /\ q.saved =>
                      /\ q.pushes = 2 /\ q.saveCalls = 1
                      /\ Len(store[sid]) = Len(before) + 2
                      /\ SubSeq(store[sid], 1, Len(before)) = before
                      /\ store[sid][Len(before) + 1] = Msg("user", Trim(q.message))
                      /\ store[sid][Len(before) + 2].role = "assistant"
                      /\ References(store[sid][Len(before) + 2].content,
                                    result.imageUrl)
                /\ (q.pc = "done" /\ q.body \in ImageErrors) =>
                      /\ store = q.storeBefore
                      /\ sid = "" /\ q.loadedLen = 0
                      /\ q.pushes = 0 /\ q.saveCalls = 0

\* an image turn on the stored session has been saved
C23_Witness ==
    \E r \in Req :
        LET q == req[r]
        IN  /\ q.kind = "image" /\ q.saved /\ q.loadedLen = 18
            /\ q.message = Chars(" generate an image of a red bicycle ")
            /\ store["s1"][19].content = Chars("generate an image of a red bicycle")

----------------------------------------------------------------------------
(* C24 *)

\* C24: the list a provider is sent starts with the system prompt and
\* continues with the messages of the caller, in order; no stored message is
\* the system prompt.
C24_SystemPromptFirstNeverStored ==
    /\ \A r \in Req :
          LET q == req[r]
              system == Msg("system", ZENO_SYSTEM_PROMPT)
          IN  /\ q.groqCalls > 0 =>
                    /\ Head(q.groqWire) = system
                    /\ Tail(q.groqWire) = q.contextMessages
              /\ q.cohereCalls > 0 =>
                    /\ Head(q.cohereWire) = system
                    /\ Tail(q.cohereWire) = q.contextMessages
              /\ \A i \in 1..Len(q.conv) :
                    q.conv[i].role # "system" /\ q.conv[i].content # ZENO_SYSTEM_PROMPT
    /\ \A sid \in DOMAIN store : \A i \in 1..Len(store[sid]) :
          store[sid][i].role # "system" /\ store[sid][i].content # ZENO_SYSTEM_PROMPT

\* both providers were called for a conversation of 19 messages
C24_Witness ==
    \E r \in Req :
        LET q == req[r]
        IN  /\ q.groqCalls > 0 /\ q.cohereCalls > 0
            /\ Len(q.cohereWire) = ContextWindow /\ q.saved

----------------------------------------------------------------------------
(* C26 *)

\* the text of the deltas ds, in order
RECURSIVE Joined(_)
Joined(ds) == IF ds = <<>> THEN <<>> ELSE Head(ds) \o Joined(Tail(ds))

\* C26: when a stream has sent done, the deltas it delivered and the
\* assistant text it persisted are the whole output of one provider: of the
\* primary, which then succeeded, or of the fallback.
C26_DeltasOfOneProvider ==
    \A r \in Req :
        LET q == req[r]
            delivered == Concat(q.events)
            persisted == store[q.currentSessionId][q.loadedLen + 2].content
        IN  (IsStream(q) /\ HasEvent(q, "done")) =>
                /\ delivered = persisted
                /\ \/ q.groqResult = "ok" /\ delivered = Joined(q.groqOut)
                   \/ q.cohereResult = "ok" /\ delivered = Joined(q.cohereOut)

----------------------------------------------------------------------------
(* C28 *)

\* user, assistant, user, assistant, ...: at least one pair
Alternating(messages) ==
    /\ Len(messages) >= 2 /\ Len(messages) % 2 = 0
    /\ \A i \in 1..Len(messages) :
          messages[i].role = IF i % 2 = 1 THEN "user" ELSE "assistant"

\* C28: when requests do not overlap, every stored conversation alternates
\* user and assistant messages from a user message on and has an even length
\* of at least 2; a finished turn that succeeded has added 2 messages to its
\* conversation, one that failed has left the store as it was.
C28_StoredConversationsAlternate ==
    /\ \A sid \in DOMAIN store : Alternating(store[sid])
    /\ \A r \in Req :
          LET q == req[r]
          IN  q.pc = "done" =>
                  IF q.saved
                  THEN /\ Len(store[q.currentSessionId]) = q.loadedLen + 2
                       /\ \A sid \in DOMAIN store \ {q.currentSessionId} :
                             sid \in DOMAIN q.storeBefore
                             /\ store[sid] = q.storeBefore[sid]
                  ELSE store = q.storeBefore

\* a blocking turn has been saved after ten stored turns
C28_Witness ==
    \E r \in Req :
        LET q == req[r]
        IN  /\ q.pc = "done" /\ q.saved /\ q.loadedLen = 20
            /\ q.kind = "chat"
            /\ Len(store["s1"]) = 22

----------------------------------------------------------------------------
(* C29 *)

\* C29: on the blocking route with a ready file, the first submitted message
\* carries the document prefix exactly when the conversation with the new user
\* message has at most 20 messages; a longer one is submitted from an
\* assistant message on and no submitted message contains the document.
C29_DocumentsOnlyInFirstTenTurns ==
    \A r \in Req :
        LET q == req[r]
            n == q.loadedLen + 1
            ready == FindReadyFiles(files, q.currentSessionId)
            prefix == FileContextPrefix(ready)
            ctx == q.contextMessages
        IN  (IsChat(q) /\ ready # <<>>) =>
                /\ n <= 20 <=> (ctx[1].role = "user" /\ IsPrefix(prefix, ctx[1].content))
                /\ n <= 20 => References(ctx[1].content, ready[1].extractedText)
                /\ n > 20 =>
                      /\ ctx[1].role = "assistant"
                      /\ \A i \in 1..Len(ctx) :
                            ~References(ctx[i].content, ready[1].extractedText)

\* the eleventh turn of a session with a ready file
C29_Witness ==
    \E r \in Req :
        LET q == req[r]
        IN  /\ IsChat(q) /\ q.loadedLen = 20
            /\ FindReadyFiles(files, q.currentSessionId) # <<>>
            /\ q.contextMessages[1].role = "assistant"

====
